---- MODULE Spec2Model ----
(***************************************************************************)
(* WeatherService (src/src/app/services/weather.service.ts): the cache-    *)
(* aware fetcher, the location resolver, the weather accessors and the     *)
(* selected-location subject, as a state machine over the collaborators    *)
(* the service calls: the network-status probe, the key-value store, the   *)
(* HTTP client, the geolocation plugin and the clock.                      *)
(*                                                                         *)
(* The key-value store is @ionic/storage-angular's Storage: get, set and   *)
(* clear throw 'Database not created. Must call create() first' until the  *)
(* promise of create() has resolved; afterwards they act on a persistent   *)
(* map that outlives the service (the contents at construction are what an *)
(* earlier run of the application left there).                             *)
(*                                                                         *)
(* Time is counted in units of the fetcher's default maxAge (10 minutes).  *)
(***************************************************************************)
EXTENDS Integers, Sequences, FiniteSets, TLC

VARIABLES
    online,     \* Network.getStatus().connected, as the platform reports it now
    now,        \* Date.now()
    created,    \* storage.create() has resolved
    store,      \* the key-value store's contents
    calls,      \* subscriptions to the weather accessors, per caller
    loc,        \* the getCurrentLocation() / initialize() call in progress
    clr,        \* the clearCache() calls: what the last one did
    early,      \* a get, set or clear was issued before create() resolved
    subj,       \* selectedLocationSubject
    subs,       \* the subscribers of selectedLocation$
    pure        \* a response under the accessors' post-processing

vars == <<online, now, created, store, calls, loc, clr, early, subj, subs, pure>>

-----------------------------------------------------------------------------
(* Bounds *)

MaxTime == 1

MaxForecast == 2

MaxSets == 2

Callers == {"a", "b"}

-----------------------------------------------------------------------------
(* JavaScript values *)

Undefined == [t |-> "undefined"]

Null == [t |-> "null"]

Num(n) == [t |-> "number", v |-> n, inf |-> 0]

PosInfinity == [t |-> "number", v |-> 0, inf |-> 1]

NegInfinity == [t |-> "number", v |-> 0, inf |-> -1]

Truthy(x) ==
    CASE x.t = "undefined" -> FALSE
      [] x.t = "null" -> FALSE
      [] x.t = "number" -> (x.inf # 0 \/ x.v # 0)
      [] OTHER -> TRUE

(* new Error(message); message is kept as the pieces it was concatenated of *)
Err(message) == [t |-> "error", message |-> message]

(* '' + error, for an Error: "Error: " followed by its message *)
ErrorToString(e) == <<"Error: ">> \o e.message

(* what an rxjs pipeline delivers to its subscriber: one value, or an error *)
Emit(v) == [kind |-> "next", value |-> v, error |-> Undefined]

Throw(e) == [kind |-> "error", value |-> Undefined, error |-> e]

-----------------------------------------------------------------------------
(* Responses of the weather provider: the fields the accessors read.       *)
(* main: the object of current conditions; sys: {sunrise, sunset} in Unix  *)
(* seconds; list: the forecast entries, each entry's main.temp in tenths   *)
(* of a degree; sunrise, sunset: the top-level fields getWeatherData adds. *)

Response(main, sys, list) ==
    [t |-> "object", main |-> main, sys |-> sys, list |-> list,
     sunrise |-> Undefined, sunset |-> Undefined]

Obj == [t |-> "object"]

Sys(sunrise, sunset) == [t |-> "object", sunrise |-> sunrise, sunset |-> sunset]

Array(items) == [t |-> "array", items |-> items]

SecondsPerDay == 86400

SecondsPerHour == 3600

SecondsPerMinute == 60

(* date.toLocaleTimeString('en-US', {hour: 'numeric', minute: '2-digit',   *)
(* hour12: true}) of new Date(timestamp * 1000), in a zone tz seconds east *)
(* of UTC: "h:mm AM" or "h:mm PM"                                          *)
convertUnixToLocalTime(timestamp, tz) ==
    LET sec == (timestamp.v + tz) % SecondsPerDay
        h == sec \div SecondsPerHour
        m == (sec % SecondsPerHour) \div SecondsPerMinute
    IN  [t |-> "string",
         hour |-> IF h % 12 = 0 THEN 12 ELSE h % 12,
         minute |-> m,
         period |-> IF h < 12 THEN "AM" ELSE "PM"]

(* getWeatherData's map() without its test of data.main *)
WeatherDataMapUnguarded(data, tz) ==
    IF Truthy(data)
    THEN LET sys == IF Truthy(data.sys) THEN data.sys ELSE Sys(Undefined, Undefined)
         IN  [data EXCEPT
                !.sunrise = IF Truthy(sys.sunrise)
                            THEN convertUnixToLocalTime(sys.sunrise, tz) ELSE Null,
                !.sunset = IF Truthy(sys.sunset)
                           THEN convertUnixToLocalTime(sys.sunset, tz) ELSE Null]
    ELSE data

(* the map() of getWeatherData *)
WeatherDataMap(data, tz) ==
    IF Truthy(data) /\ Truthy(data.main)
    THEN LET sys == IF Truthy(data.sys) THEN data.sys ELSE Sys(Undefined, Undefined)
         IN  [data EXCEPT
                !.sunrise = IF Truthy(sys.sunrise)
                            THEN convertUnixToLocalTime(sys.sunrise, tz) ELSE Null,
                !.sunset = IF Truthy(sys.sunset)
                           THEN convertUnixToLocalTime(sys.sunset, tz) ELSE Null]
    ELSE data

RECURSIVE MaxOf(_)
(* Math.max(...temps): -Infinity for no arguments *)
MaxOf(temps) ==
    IF temps = <<>> THEN NegInfinity
    ELSE LET rest == MaxOf(Tail(temps))
         IN  IF rest.inf = -1 \/ Head(temps) >= rest.v THEN Num(Head(temps)) ELSE rest

RECURSIVE MinOf(_)
(* Math.min(...temps): Infinity for no arguments *)
MinOf(temps) ==
    IF temps = <<>> THEN PosInfinity
    ELSE LET rest == MinOf(Tail(temps))
         IN  IF rest.inf = 1 \/ Head(temps) <= rest.v THEN Num(Head(temps)) ELSE rest

(* Math.round of a number given in tenths: the nearest integer, a half     *)
(* going up; an infinity is itself                                         *)
MathRound(x) == IF x.inf # 0 THEN x ELSE Num((x.v + 5) \div 10)

ForecastInvalid == Err(<<"Forecast data is invalid.">>)

(* the map() of getHighLowTemperature *)
HighLowMap(data) ==
    IF Truthy(data) /\ Truthy(data.list) /\ data.list.t = "array"
    THEN Emit([t |-> "object",
               high |-> MathRound(MaxOf(data.list.items)),
               low |-> MathRound(MinOf(data.list.items))])
    ELSE Throw(ForecastInvalid)

-----------------------------------------------------------------------------
(* The key-value store *)

Keys == {"currentLocation", "selectedLocation", "weekly_forecast", "weather",
         "weather_current"}

(* { data, timestamp: Date.now() }, as fetchDataWithCache stores it *)
Entry(data, timestamp) == [t |-> "object", data |-> data, timestamp |-> timestamp]

(* { latitude, longitude, city } *)
Location(latitude, longitude, city) ==
    [t |-> "object", latitude |-> latitude, longitude |-> longitude, city |-> city]

EmptyStore == [k \in Keys |-> Null]

(* the error of a get, set or clear issued before create() has resolved *)
DatabaseNotCreated == Err(<<"Database not created. Must call create() first">>)

(* maxAge = 10 * 60 * 1000, in units of ten minutes *)
DefaultMaxAge == 1

-----------------------------------------------------------------------------
(* The weather accessors over the cache-aware fetcher *)

FetcherOps == {"getWeeklyWeather", "getHourlyWeather"}

AccessorOps == {"getWeatherData", "getWeeklyWeather", "getHourlyWeather",
                "getVisibilityData", "getHighLowTemperature"}

(* the cacheKey each accessor passes, for the one pair of coordinates asked *)
cacheKey(op) ==
    CASE op \in {"getWeatherData", "getVisibilityData"} -> "weather_current"
      [] op \in {"getWeeklyWeather", "getHighLowTemperature"} -> "weekly_forecast"
      [] OTHER -> "weather"

NoValidCache == Err(<<"No valid cached data available">>)

FetchFailed == Err(<<"Failed to fetch data.">>)

WeatherFailed == Err(<<"Failed to fetch weather data.">>)

CityNameFailed == Err(<<"Failed to get city name.">>)

HighLowFailed(error) ==
    Err(<<"Failed to fetch high/low temperatures: ">> \o ErrorToString(error))

(* the error HttpClient delivers for a failed GET *)
HttpErrorResponse == Err(<<"Http failure response">>)

(* the map() of fetchDataWithCache's offline branch, on what storage.get   *)
(* resolved to, at time t                                                  *)
CachedOrThrow(cachedData, t, maxAge) ==
    IF Truthy(cachedData) /\ t - cachedData.timestamp < maxAge
    THEN Emit(cachedData.data)
    ELSE Throw(NoValidCache)

(* the online branch's catchError() without its alert *)
FetchCatchSilent(error) == [out |-> Throw(FetchFailed), alerts |-> <<>>]

(* the catchError() of fetchDataWithCache's online branch *)
FetchCatch(error) ==
    [out |-> Throw(FetchFailed),
     alerts |-> << <<"Error fetching data:">> \o ErrorToString(error) >>]

(* the operators each accessor pipes the fetcher's outcome through: what   *)
(* the subscriber gets, and the alerts raised on the way                   *)
Pipe(op, fetched, tz) ==
    CASE op \in {"getWeatherData", "getVisibilityData"} ->
            IF fetched.kind = "next"
            THEN [out |-> Emit(WeatherDataMap(fetched.value, tz)), alerts |-> <<>>]
            ELSE [out |-> Throw(WeatherFailed),
                  alerts |-> << <<"Error fetching weather data: ">>
                                \o ErrorToString(fetched.error) >>]
      [] op = "getHighLowTemperature" ->
            LET mapped == IF fetched.kind = "next" THEN HighLowMap(fetched.value)
                          ELSE fetched
            IN  [out |-> IF mapped.kind = "next" THEN mapped
                         ELSE Throw(HighLowFailed(mapped.error)),
                 alerts |-> <<>>]
      [] OTHER -> [out |-> fetched, alerts |-> <<>>]

-----------------------------------------------------------------------------
(* State *)

(* the responses the provider may send: a well-formed one and one that     *)
(* has none of the fields the accessors read                               *)
Responses ==
    {Response(Obj, Sys(Num(1700000000), Num(1700040000)), Array(<<32, -17, 100>>)),
     Response(Undefined, Undefined, Undefined)}

Coordinates == {<<10, 20>>, <<30, 40>>}

(* the reverse-geocoding responses *)
Cities == {[t |-> "object", display_name |-> "A"]}

Locations == {Location(c[1], c[2], n) : c \in Coordinates, n \in Cities}

(* a caller with no subscription; the fields of a subscription:            *)
(*   since     subscribed after a call of clearCache() had settled         *)
(*   connected what isOnline() resolved to                                  *)
(*   gets      the HTTP GETs it issued                                     *)
(*   held      what the store held under cacheKey when storage.get         *)
(*             resolved, or threw                                          *)
(*   seen, checkedAt, cleanRead   what storage.get resolved to, Date.now() *)
(*             in the map() over it, and whether the store was then as the *)
(*             last clearCache() and the operations before it left it      *)
(*   response  the data of the GET, when it succeeded                      *)
(*   wrote     the entry storage.set stored                                *)
(*   fetched   what fetchDataWithCache delivered                           *)
(*   out, alerts, doneAt   what the accessor delivered, the alerts raised, *)
(*             and when                                                    *)
IdleCall ==
    [pc |-> "idle", op |-> "none", since |-> FALSE, connected |-> FALSE, gets |-> 0,
     held |-> Undefined, seen |-> Undefined, checkedAt |-> 0, cleanRead |-> FALSE,
     response |-> Undefined, wrote |-> Undefined,
     fetched |-> Undefined, out |-> Undefined, alerts |-> <<>>, doneAt |-> 0]

(* no getCurrentLocation() or initialize() in progress; the fields of one: *)
(*   via       the method called: getCurrentLocation, or initialize, which *)
(*             calls getCurrentLocation when it finds the device online    *)
(*   positions, gets   the Geolocation.getCurrentPosition calls and the    *)
(*             reverse-geocoding GETs it issued                            *)
(*   held, seen, cleanRead, wrote   as for a subscription, for the key     *)
(*             'currentLocation'                                           *)
(*   ret       what getCurrentLocation resolved or rejected with           *)
(*   out       what the method called resolved or rejected with            *)
IdleLoc ==
    [pc |-> "idle", via |-> "none", since |-> FALSE, connected |-> FALSE,
     positions |-> 0, gets |-> 0, coords |-> <<>>, held |-> Undefined,
     seen |-> Undefined, cleanRead |-> FALSE, wrote |-> Undefined,
     ret |-> Undefined, out |-> Undefined, alerts |-> <<>>]

(* new BehaviorSubject(null): its _value and isStopped; last and sets are  *)
(* the location of the latest setSelectedLocation call and their number    *)
InitialSubject == [value |-> Null, stopped |-> FALSE, last |-> Null, sets |-> 0]

Subscribers == {"s1", "s2"}

NoSubscription == [state |-> "none", got |-> <<>>]

InitialPure == [tz |-> 0, op |-> "none", input |-> Undefined, output |-> Undefined]

(* the service as its constructor leaves it: initStorage() has called      *)
(* storage.create() and its promise is pending                             *)
Constructed ==
    /\ online \in BOOLEAN
    /\ now = 0
    /\ created = FALSE
    /\ store = EmptyStore
    /\ calls = [c \in Callers |-> IdleCall]
    /\ loc = IdleLoc
    /\ clr = [state |-> "none", dirty |-> FALSE]
    /\ early = FALSE
    /\ subj = InitialSubject
    /\ subs = [s \in Subscribers |-> NoSubscription]

Init ==
    /\ Constructed
    /\ pure = InitialPure

-----------------------------------------------------------------------------
(* The environment *)

(* Date.now() advances *)
Tick ==
    /\ now < MaxTime
    /\ now' = now + 1
    /\ UNCHANGED <<online, created, store, calls, loc, clr, early, subj, subs, pure>>

(* the device gains or loses connectivity *)
NetworkChange ==
    /\ online' = ~online
    /\ UNCHANGED <<now, created, store, calls, loc, clr, early, subj, subs, pure>>

(* initStorage: the promise of storage.create() resolves *)
initStorage ==
    /\ ~created
    /\ created' = TRUE
    /\ UNCHANGED <<online, now, store, calls, loc, clr, early, subj, subs, pure>>

-----------------------------------------------------------------------------
(* fetchDataWithCache under an accessor *)

(* the subscription of caller c ends with the fetcher delivering fetched,  *)
(* after raising the alerts given: the accessor's operators run on it      *)
Deliver(c, rec, fetched, alerts) ==
    LET piped == Pipe(rec.op, fetched, pure.tz)
    IN  calls' = [calls EXCEPT ![c] =
                    [rec EXCEPT !.pc = "done", !.fetched = fetched,
                                !.out = piped.out,
                                !.alerts = alerts \o piped.alerts,
                                !.doneAt = now]]

(* caller c subscribes to accessor op: from(this.isOnline()) *)
Subscribe(c, op) ==
    /\ calls[c].pc = "idle"
    /\ calls' = [calls EXCEPT ![c] =
                    [IdleCall EXCEPT !.pc = "probe", !.op = op,
                                     !.since = (clr.state # "none")]]
    /\ UNCHANGED <<online, now, created, store, loc, clr, early, subj, subs, pure>>

(* a GET shared with a call already in flight for the same key *)
HttpGetDeduplicated(c, rec) ==
    [rec EXCEPT !.pc = "http",
                !.gets = IF \E d \in Callers \ {c} :
                                calls[d].pc = "http" /\ calls[d].op = rec.op
                         THEN @ ELSE @ + 1]

(* this.http.get<any>(endpoint): a request of the call's own *)
HttpGet(c, rec) == [rec EXCEPT !.pc = "http", !.gets = @ + 1]

(* Network.getStatus() resolves and switchMap's projector runs: offline,   *)
(* storage.get(cacheKey) is called; online, http.get(endpoint) is issued   *)
Probe(c) ==
    /\ calls[c].pc = "probe"
    /\ LET rec == [calls[c] EXCEPT !.connected = online]
           off == [rec EXCEPT !.held = store[cacheKey(rec.op)]]
       IN  IF online
           THEN /\ calls' = [calls EXCEPT ![c] = HttpGet(c, rec)]
                /\ early' = early
           ELSE IF created
           THEN /\ calls' = [calls EXCEPT ![c] = [rec EXCEPT !.pc = "get"]]
                /\ early' = early
           ELSE /\ Deliver(c, off, Throw(DatabaseNotCreated), <<>>)
                /\ early' = TRUE
    /\ UNCHANGED <<online, now, created, store, loc, clr, subj, subs, pure>>

(* storage.get(cacheKey) resolves and the offline branch's map() runs *)
CacheRead(c) ==
    /\ calls[c].pc = "get"
    /\ LET cachedData == store[cacheKey(calls[c].op)]
           rec == [calls[c] EXCEPT !.held = cachedData, !.seen = cachedData,
                                   !.checkedAt = now, !.cleanRead = ~clr.dirty]
       IN  Deliver(c, rec, CachedOrThrow(cachedData, now, DefaultMaxAge), <<>>)
    /\ UNCHANGED <<online, now, created, store, loc, clr, early, subj, subs, pure>>

(* caller c subscribes to getCityName: this.http.get<any>(...) *)
SubscribeCityName(c) ==
    /\ calls[c].pc = "idle"
    /\ calls' = [calls EXCEPT ![c] =
                    HttpGet(c, [IdleCall EXCEPT !.op = "getCityName",
                                                !.since = (clr.state # "none")])]
    /\ UNCHANGED <<online, now, created, store, loc, clr, early, subj, subs, pure>>

(* the reverse-geocoding GET of getCityName succeeds *)
CityNameSuccess(c, cityName) ==
    /\ calls[c].pc = "http"
    /\ calls[c].op = "getCityName"
    /\ Deliver(c, [calls[c] EXCEPT !.response = cityName], Emit(cityName), <<>>)
    /\ UNCHANGED <<online, now, created, store, loc, clr, early, subj, subs, pure>>

(* the reverse-geocoding GET of getCityName fails: catchError *)
CityNameFailure(c) ==
    /\ calls[c].pc = "http"
    /\ calls[c].op = "getCityName"
    /\ Deliver(c, calls[c], Throw(CityNameFailed), <<>>)
    /\ UNCHANGED <<online, now, created, store, loc, clr, early, subj, subs, pure>>

(* the GET succeeds with data: tap() calls storage.set(cacheKey, {data,    *)
(* timestamp: Date.now()}) without awaiting it; a throw of it goes to      *)
(* catchError                                                              *)
HttpSuccess(c, data) ==
    /\ calls[c].pc = "http"
    /\ calls[c].op # "getCityName"
    /\ LET key == cacheKey(calls[c].op)
           entry == Entry(data, now)
           rec == [calls[c] EXCEPT !.response = data]
       IN  IF created
           THEN /\ store' = [store EXCEPT ![key] = entry]
                /\ Deliver(c, [rec EXCEPT !.wrote = entry], Emit(data), <<>>)
                /\ clr' = [clr EXCEPT !.dirty = @ \/ calls[c].since]
                /\ early' = early
           ELSE /\ store' = store
                /\ Deliver(c, rec, FetchCatch(DatabaseNotCreated).out,
                           FetchCatch(DatabaseNotCreated).alerts)
                /\ clr' = clr
                /\ early' = TRUE
    /\ UNCHANGED <<online, now, created, loc, subj, subs, pure>>

(* the GET fails: catchError *)
HttpFailure(c) ==
    /\ calls[c].pc = "http"
    /\ calls[c].op # "getCityName"
    /\ Deliver(c, calls[c], FetchCatch(HttpErrorResponse).out,
               FetchCatch(HttpErrorResponse).alerts)
    /\ UNCHANGED <<online, now, created, store, loc, clr, early, subj, subs, pure>>

(* the subscriber of caller c has what was delivered *)
Unsubscribe(c) ==
    /\ calls[c].pc = "done"
    /\ calls' = [calls EXCEPT ![c] = IdleCall]
    /\ UNCHANGED <<online, now, created, store, loc, clr, early, subj, subs, pure>>

(* clearCache: await this.storage.clear(). clr.state is how the call      *)
(* settled; clr.dirty, whether an operation begun after it has written the *)
(* store.                                                                  *)
clearCache ==
    /\ store' = IF created THEN EmptyStore ELSE store
    /\ clr' = [state |-> IF created THEN "cleared" ELSE "rejected", dirty |-> FALSE]
    /\ early' = (early \/ ~created)
    /\ calls' = [c \in Callers |-> [calls[c] EXCEPT !.since = FALSE]]
    /\ loc' = [loc EXCEPT !.since = FALSE]
    /\ UNCHANGED <<online, now, created, subj, subs, pure>>

-----------------------------------------------------------------------------
(* The location resolver *)

OfflineNoLocationAlert == <<"You are offline and no cached location is available.">>

NoCachedLocation == Err(<<"No cached location available while offline.">>)

(* the error of Geolocation.getCurrentPosition: a timeout, a denial *)
GeolocationError == Err(<<"Geolocation failed">>)

(* getCurrentLocation's catch: alert('Error getting location: ' + error);  *)
(* throw error. Under initialize the rejection is caught and logged.       *)
LocCatch(rec, error, alerts) ==
    [rec EXCEPT !.pc = "done", !.ret = Throw(error),
                !.out = IF rec.via = "initialize" THEN Emit(Undefined) ELSE Throw(error),
                !.alerts = @ \o alerts
                             \o << <<"Error getting location: ">> \o ErrorToString(error) >>]

(* getCurrentLocation returns location. Under initialize, getWeatherData   *)
(* is then called and its Observable never subscribed: nothing is fetched. *)
LocReturn(rec, location) ==
    [rec EXCEPT !.pc = "done", !.ret = Emit(location),
                !.out = IF rec.via = "initialize" THEN Emit(Undefined) ELSE Emit(location)]

(* getCurrentLocation() or initialize() is called: await this.isOnline() *)
LocCall(via) ==
    /\ loc.pc = "idle"
    /\ loc' = [IdleLoc EXCEPT !.pc = IF via = "initialize" THEN "init_probe" ELSE "probe",
                              !.via = via, !.since = (clr.state # "none")]
    /\ UNCHANGED <<online, now, created, store, calls, clr, early, subj, subs, pure>>

(* initialize: isOnline() resolves; online, getCurrentLocation() is        *)
(* called; offline, storage.get('currentLocation')                         *)
initializeProbe ==
    /\ loc.pc = "init_probe"
    /\ IF online
       THEN /\ loc' = [loc EXCEPT !.pc = "probe"]
            /\ early' = early
       ELSE IF created
       THEN /\ loc' = [loc EXCEPT !.pc = "init_get"]
            /\ early' = early
       ELSE /\ loc' = [loc EXCEPT !.pc = "done", !.out = Emit(Undefined),
                                  !.held = store["currentLocation"]]
            /\ early' = TRUE
    /\ UNCHANGED <<online, now, created, store, calls, clr, subj, subs, pure>>

(* initialize: storage.get('currentLocation') resolves *)
initializeRead ==
    /\ loc.pc = "init_get"
    /\ LET cachedLocation == store["currentLocation"]
       IN  loc' = [loc EXCEPT !.pc = "done", !.held = cachedLocation,
                              !.seen = cachedLocation, !.cleanRead = ~clr.dirty, !.out = Emit(Undefined),
                              !.alerts = IF Truthy(cachedLocation) THEN @
                                         ELSE @ \o <<OfflineNoLocationAlert>>]
    /\ UNCHANGED <<online, now, created, store, calls, clr, early, subj, subs, pure>>

(* getCurrentLocation: isOnline() resolves; offline,                       *)
(* storage.get('currentLocation'); online, Geolocation.getCurrentPosition  *)
LocProbe ==
    /\ loc.pc = "probe"
    /\ LET rec == [loc EXCEPT !.connected = online]
           off == [rec EXCEPT !.held = store["currentLocation"]]
       IN  IF online
           THEN /\ loc' = [rec EXCEPT !.pc = "geo", !.positions = @ + 1]
                /\ early' = early
           ELSE IF created
           THEN /\ loc' = [rec EXCEPT !.pc = "get"]
                /\ early' = early
           ELSE /\ loc' = LocCatch(off, DatabaseNotCreated, <<>>)
                /\ early' = TRUE
    /\ UNCHANGED <<online, now, created, store, calls, clr, subj, subs, pure>>

(* getCurrentLocation: storage.get('currentLocation') resolves *)
LocRead ==
    /\ loc.pc = "get"
    /\ LET cachedLocation == store["currentLocation"]
           rec == [loc EXCEPT !.held = cachedLocation, !.seen = cachedLocation,
                              !.cleanRead = ~clr.dirty]
       IN  loc' = IF Truthy(cachedLocation)
                  THEN LocReturn(rec, cachedLocation)
                  ELSE LocCatch(rec, NoCachedLocation, <<OfflineNoLocationAlert>>)
    /\ UNCHANGED <<online, now, created, store, calls, clr, early, subj, subs, pure>>

(* Geolocation.getCurrentPosition resolves: getCityName(...).toPromise() *)
GeoSuccess(coords) ==
    /\ loc.pc = "geo"
    /\ loc' = [loc EXCEPT !.pc = "city", !.coords = coords, !.gets = @ + 1]
    /\ UNCHANGED <<online, now, created, store, calls, clr, early, subj, subs, pure>>

(* Geolocation.getCurrentPosition rejects *)
GeoFailure ==
    /\ loc.pc = "geo"
    /\ loc' = LocCatch(loc, GeolocationError, <<>>)
    /\ UNCHANGED <<online, now, created, store, calls, clr, early, subj, subs, pure>>

(* the reverse-geocoding GET succeeds with cityName:                       *)
(* await this.storage.set('currentLocation', location); return location    *)
CitySuccess(cityName) ==
    /\ loc.pc = "city"
    /\ LET location == Location(loc.coords[1], loc.coords[2], cityName)
       IN  IF created
           THEN /\ store' = [store EXCEPT !["currentLocation"] = location]
                /\ loc' = LocReturn([loc EXCEPT !.wrote = location], location)
                /\ clr' = [clr EXCEPT !.dirty = @ \/ loc.since]
                /\ early' = early
           ELSE /\ loc' = LocCatch(loc, DatabaseNotCreated, <<>>)
                /\ early' = TRUE
                /\ UNCHANGED <<store, clr>>
    /\ UNCHANGED <<online, now, created, calls, subj, subs, pure>>

(* the reverse-geocoding GET fails: getCityName's catchError *)
CityFailure ==
    /\ loc.pc = "city"
    /\ loc' = LocCatch(loc, CityNameFailed, <<>>)
    /\ UNCHANGED <<online, now, created, store, calls, clr, early, subj, subs, pure>>

(* the caller has the promise's outcome *)
LocSettled ==
    /\ loc.pc = "done"
    /\ loc' = IdleLoc
    /\ UNCHANGED <<online, now, created, store, calls, clr, early, subj, subs, pure>>

(* the application is started again: a new WeatherService is constructed   *)
(* over the store the earlier run left, and what was in progress is gone   *)
constructor ==
    /\ created' = FALSE
    /\ calls' = [c \in Callers |-> IdleCall]
    /\ loc' = IdleLoc
    /\ clr' = [state |-> "none", dirty |-> FALSE]
    /\ subj' = InitialSubject
    /\ subs' = [s \in Subscribers |-> NoSubscription]
    /\ UNCHANGED <<online, now, store, early, pure>>

Next ==
    \/ Tick
    \/ NetworkChange
    \/ initStorage
    \/ \E c \in Callers, op \in FetcherOps : Subscribe(c, op)
    \/ \E c \in Callers : Probe(c)
    \/ \E c \in Callers : CacheRead(c)
    \/ \E c \in Callers, data \in Responses : HttpSuccess(c, data)
    \/ \E c \in Callers : HttpFailure(c)
    \/ \E c \in Callers : Unsubscribe(c)
    \/ clearCache
    \/ constructor

Spec == Init /\ [][Next]_vars

(* every public operation, one subscription at a time *)
NextOps ==
    \/ NetworkChange
    \/ initStorage
    \/ \E op \in AccessorOps : Subscribe("a", op)
    \/ SubscribeCityName("a")
    \/ Probe("a")
    \/ CacheRead("a")
    \/ \E data \in Responses : HttpSuccess("a", data)
    \/ HttpFailure("a")
    \/ \E cityName \in Cities : CityNameSuccess("a", cityName)
    \/ CityNameFailure("a")
    \/ Unsubscribe("a")
    \/ LocCall("getCurrentLocation")
    \/ LocProbe
    \/ LocRead
    \/ \E coords \in Coordinates : GeoSuccess(coords)
    \/ GeoFailure
    \/ \E cityName \in Cities : CitySuccess(cityName)
    \/ CityFailure
    \/ LocSettled

SpecOps == Init /\ [][NextOps]_vars

-----------------------------------------------------------------------------
(* The accessors' post-processing over the responses of the provider *)

Temps == {-17, -15, 25, 32, 100}

RECURSIVE SeqsUpTo(_, _)
SeqsUpTo(S, n) ==
    IF n = 0 THEN {<<>>}
    ELSE LET shorter == SeqsUpTo(S, n - 1)
         IN  shorter \cup {Append(q, x) : q \in shorter, x \in S}

Forecasts == SeqsUpTo(Temps, MaxForecast)

SysFields ==
    {Undefined, Sys(Undefined, Undefined), Sys(Num(0), Num(1700040000)),
     Sys(Num(1700000000), Undefined), Sys(Num(1700000000), Num(1700040000))}

AnyResponses ==
    {Null}
    \cup {Response(m, sy, l) : m \in {Undefined, Obj}, sy \in SysFields,
                              l \in {Undefined, Obj} \cup {Array(f) : f \in Forecasts}}

(* what fetchDataWithCache may deliver to an accessor *)
Fetched ==
    {Emit(d) : d \in AnyResponses}
    \cup {Throw(e) : e \in {NoValidCache, FetchFailed, DatabaseNotCreated}}

(* the caller's zone, in seconds east of UTC *)
TimeZones == {0, 19800, -18000}

InitData ==
    /\ Constructed
    /\ pure \in {[InitialPure EXCEPT !.tz = z, !.input = f] : z \in TimeZones, f \in Fetched}

(* the subscriber of accessor op gets what its operators make of pure.input *)
Apply(op) ==
    /\ pure.op = "none"
    /\ pure' = [pure EXCEPT !.op = op, !.output = Pipe(op, pure.input, pure.tz).out]
    /\ UNCHANGED <<online, now, created, store, calls, loc, clr, early, subj, subs>>

NextData == \E op \in AccessorOps : Apply(op)

SpecData == InitData /\ [][NextData]_vars

-----------------------------------------------------------------------------
(* The selected-location subject *)

(* the locations setSelectedLocation is called with; city is optional *)
Selectable == Locations \cup {Location(10, 20, Undefined)}

(* next(value) reaching the subscribers a complete() has closed as well *)
DeliveredAfterComplete(sub, value) ==
    IF sub.state \in {"open", "completed"} THEN [sub EXCEPT !.got = Append(@, value)]
    ELSE sub

(* next(value) as a subscriber sees it: only an open subscription gets it *)
Delivered(sub, value) ==
    IF sub.state = "open" THEN [sub EXCEPT !.got = Append(@, value)] ELSE sub

(* selectedLocation$.subscribe(...): the current value at once, or, of a   *)
(* completed subject, the completion alone                                 *)
SubscribeSelected(s) ==
    /\ subs[s].state = "none"
    /\ subs' = [subs EXCEPT ![s] =
                   IF subj.stopped THEN [state |-> "completed", got |-> <<>>]
                   ELSE [state |-> "open", got |-> <<subj.value>>]]
    /\ UNCHANGED <<online, now, created, store, calls, loc, clr, early, subj, pure>>

(* the subscriber unsubscribes *)
UnsubscribeSelected(s) ==
    /\ subs[s].state = "open"
    /\ subs' = [subs EXCEPT ![s].state = "closed"]
    /\ UNCHANGED <<online, now, created, store, calls, loc, clr, early, subj, pure>>

(* setSelectedLocation: selectedLocationSubject.next(location), then       *)
(* this.storage.set('selectedLocation', location), not awaited             *)
setSelectedLocation(location) ==
    /\ subj.sets < MaxSets
    /\ subj' = [subj EXCEPT !.value = location, !.last = location, !.sets = @ + 1]
    /\ subs' = [s \in Subscribers |-> Delivered(subs[s], location)]
    /\ store' = IF created THEN [store EXCEPT !["selectedLocation"] = location]
                ELSE store
    /\ early' = (early \/ ~created)
    /\ clr' = [clr EXCEPT !.dirty = @ \/ (created /\ clr.state # "none")]
    /\ UNCHANGED <<online, now, created, calls, loc, pure>>

(* ngOnDestroy: selectedLocationSubject.complete() *)
ngOnDestroy ==
    /\ subj' = [subj EXCEPT !.stopped = TRUE]
    /\ subs' = [s \in Subscribers |->
                  IF subs[s].state = "open" /\ ~subj.stopped
                  THEN [subs[s] EXCEPT !.state = "completed"] ELSE subs[s]]
    /\ UNCHANGED <<online, now, created, store, calls, loc, clr, early, pure>>

NextSubject ==
    \/ initStorage
    \/ \E s \in Subscribers : SubscribeSelected(s)
    \/ \E s \in Subscribers : UnsubscribeSelected(s)
    \/ \E location \in Selectable : setSelectedLocation(location)
    \/ ngOnDestroy

SpecSubject == Init /\ [][NextSubject]_vars

(* the location resolver alone *)
NextLoc ==
    \/ NetworkChange
    \/ initStorage
    \/ \E via \in {"getCurrentLocation", "initialize"} : LocCall(via)
    \/ initializeProbe
    \/ initializeRead
    \/ LocProbe
    \/ LocRead
    \/ \E coords \in Coordinates : GeoSuccess(coords)
    \/ GeoFailure
    \/ \E cityName \in Cities : CitySuccess(cityName)
    \/ CityFailure
    \/ LocSettled
    \/ clearCache
    \/ constructor

SpecLoc == Init /\ [][NextLoc]_vars

-----------------------------------------------------------------------------
(* Claims about the cache-aware fetcher (Spec) *)

CachedIffFreshOnceRead ==
    \A c \in Callers :
        LET r == calls[c]
        IN  r.pc = "done" /\ r.seen # Undefined =>
              /\ ~r.connected
              /\ IF Truthy(r.seen) /\ r.checkedAt - r.seen.timestamp < DefaultMaxAge
                 THEN r.fetched = Emit(r.seen.data)
                 ELSE r.fetched = Throw(NoValidCache)

C4_ReadAfterClearFails ==
    \A c \in Callers :
        LET r == calls[c]
        IN  r.pc = "done" /\ r.since /\ ~r.connected /\ r.cleanRead =>
              r.fetched = Throw(NoValidCache)

(* C7: calls for the same key are not deduplicated: every call that finds  *)
(* the device online issues a GET of its own, whatever other calls are in  *)
(* flight, and every call that delivers a response has written it under    *)
(* its key.                                                                *)
C7_NoDeduplication ==
    \A c \in Callers :
        LET r == calls[c]
        IN  /\ r.pc = "http" \/ (r.pc = "done" /\ r.connected) => r.gets = 1
            /\ r.pc = "done" /\ r.connected /\ r.fetched.kind = "next" =>
                  r.wrote = Entry(r.fetched.value, r.doneAt)

(* two callers at once have each a GET in flight for the same key, which  *)
(* the store does not hold                                                 *)
C7_TwoGetsInFlight ==
    /\ calls["a"].pc = "http" /\ calls["b"].pc = "http"
    /\ calls["a"].op = calls["b"].op
    /\ calls["a"].gets = 1 /\ calls["b"].gets = 1
    /\ created
    /\ store[cacheKey(calls["a"].op)] = Null

(* C10: no get, set or clear is issued on the store before                 *)
(* storage.create() has resolved.                                          *)
C10_StoreCreatedBeforeUse == ~early

-----------------------------------------------------------------------------
(* Claims about the location resolver (SpecLoc) *)

OfflineReturnsPersistedOnceRead ==
    loc.pc = "done" /\ loc.via = "getCurrentLocation" /\ Truthy(loc.seen) =>
      /\ loc.ret = Emit(loc.seen)
      /\ loc.positions = 0
      /\ loc.gets = 0
      /\ loc.wrote = Undefined

-----------------------------------------------------------------------------
(* Claims about the public operations' failures (SpecOps) *)

(* the messages the service fixes; getHighLowTemperature's by its prefix *)
FixedMessage(error) ==
    \/ error \in {NoValidCache, FetchFailed, WeatherFailed, CityNameFailed,
                  NoCachedLocation}
    \/ error.message[1] = "Failed to fetch high/low temperatures: "

(* the failures the claim names: a cache miss offline, a failed request,   *)
(* a response of an unexpected shape                                       *)
NamedFailure(r) ==
    /\ r.pc = "done"
    /\ r.out.kind = "error"
    /\ \/ ~r.connected /\ r.seen # Undefined
       \/ r.gets > 0 /\ r.response = Undefined
       \/ r.response # Undefined /\ r.fetched.kind = "next"

(* C5 as claimed: every failure of a public operation, a cache miss        *)
(* offline, a failed request or a malformed response, raises an alert and  *)
(* is rejected with an error carrying a fixed message.                     *)
C5_EveryFailureAlerted ==
    /\ \A c \in Callers :
          NamedFailure(calls[c]) =>
              calls[c].alerts # <<>> /\ FixedMessage(calls[c].out.error)
    /\ loc.pc = "done" /\ loc.out.kind = "error"
            /\ (loc.seen # Undefined \/ loc.positions > 0) =>
          loc.alerts # <<>> /\ FixedMessage(loc.out.error)

(* C5 as amended: every failure is rejected as an error; an alert is       *)
(* raised for every failure of getCurrentLocation and of getWeatherData or *)
(* getVisibilityData, and for the failures of getWeeklyWeather,            *)
(* getHourlyWeather and getHighLowTemperature in the fetcher's online      *)
(* branch; their offline failures, a forecast without a list and the       *)
(* failures of getCityName raise none. The message is fixed for            *)
(* getWeatherData, getCityName and the online branch; getCurrentLocation   *)
(* rejects with the error it caught, getHighLowTemperature appends the     *)
(* error it caught to its prefix.                                          *)
C5_FailuresRejectedSomeAlerted ==
    /\ \A c \in Callers :
          LET r == calls[c]
              onlineFailure == r.connected /\ r.fetched.kind = "error"
          IN  r.pc = "done" /\ r.out.kind = "error" =>
                CASE r.op \in {"getWeatherData", "getVisibilityData"} ->
                        /\ r.out.error = WeatherFailed
                        /\ r.alerts # <<>>
                        /\ r.alerts[Len(r.alerts)][1] = "Error fetching weather data: "
                  [] r.op \in {"getWeeklyWeather", "getHourlyWeather"} ->
                        /\ r.out = r.fetched
                        /\ (r.alerts # <<>>) <=> onlineFailure
                        /\ onlineFailure => r.out.error = FetchFailed
                        /\ ~r.connected => r.out.error \in {NoValidCache, DatabaseNotCreated}
                  [] r.op = "getHighLowTemperature" ->
                        /\ (r.alerts # <<>>) <=> onlineFailure
                        /\ r.out.error =
                             HighLowFailed(IF r.fetched.kind = "error" THEN r.fetched.error
                                           ELSE ForecastInvalid)
                  [] OTHER ->
                        /\ r.op = "getCityName"
                        /\ r.alerts = <<>>
                        /\ r.out.error = CityNameFailed
    /\ loc.pc = "done" /\ loc.ret.kind = "error" =>
          /\ loc.out = loc.ret
          /\ loc.alerts # <<>>
          /\ loc.alerts[Len(loc.alerts)] =
                <<"Error getting location: ">> \o ErrorToString(loc.out.error)
          /\ loc.out.error \in {NoCachedLocation, GeolocationError, CityNameFailed,
                                DatabaseNotCreated}

(* a cache miss offline, rejected without an alert; and a failed GET,      *)
(* alerted                                                                 *)
C5_SilentCacheMiss ==
    /\ calls["a"].pc = "done"
    /\ calls["a"].op = "getWeeklyWeather"
    /\ calls["a"].seen = Null
    /\ calls["a"].out = Throw(NoValidCache)
    /\ calls["a"].alerts = <<>>
    /\ loc.pc = "done"
    /\ loc.out = Throw(GeolocationError)
    /\ Len(loc.alerts) = 1

-----------------------------------------------------------------------------
(* Claims about the accessors' post-processing (SpecData) *)

FieldOr(x, field, default) ==
    IF x.t = "object" /\ field \in DOMAIN x THEN x[field] ELSE default

(* a "h:mm AM/PM" that is the minute of the day of timestamp in zone tz *)
IsClockTimeOf(text, timestamp, tz) ==
    /\ text.t = "string"
    /\ text.hour \in 1..12
    /\ text.minute \in 0..59
    /\ text.period \in {"AM", "PM"}
    /\ LET minuteOfDay == (text.hour % 12) * 60 + text.minute
                            + (IF text.period = "PM" THEN 720 ELSE 0)
           second == (timestamp + tz) % 86400
       IN  minuteOfDay * 60 <= second /\ second < minuteOfDay * 60 + 60

(* C9 as claimed: of every successful response, sunrise (sunset) is        *)
(* non-null when the response carries sys.sunrise (sys.sunset), both are   *)
(* null when it has no sys, and every other field is untouched.            *)
C9_SunriseSunsetOfEveryResponse ==
    pure.op = "getWeatherData" /\ pure.input.kind = "next"
        /\ pure.input.value.t = "object" =>
        LET d == pure.input.value
            r == pure.output.value
            sys == FieldOr(d, "sys", Undefined)
        IN  /\ pure.output.kind = "next"
            /\ FieldOr(sys, "sunrise", Undefined) # Undefined =>
                  FieldOr(r, "sunrise", Undefined) \notin {Null, Undefined}
            /\ FieldOr(sys, "sunset", Undefined) # Undefined =>
                  FieldOr(r, "sunset", Undefined) \notin {Null, Undefined}
            /\ sys = Undefined =>
                  /\ FieldOr(r, "sunrise", Undefined) = Null
                  /\ FieldOr(r, "sunset", Undefined) = Null
            /\ r.t = d.t
            /\ \A f \in {"main", "sys", "list"} :
                  FieldOr(r, f, Undefined) = FieldOr(d, f, Undefined)

(* C9 as amended: of a successful response that carries main, sunrise      *)
(* (sunset) is the 12-hour clock time of sys.sunrise (sys.sunset) in the   *)
(* caller's zone when the response carries it and it is not 0, and null    *)
(* otherwise, so both are null without sys; every other field is           *)
(* untouched. A response without main is returned as it is, with no        *)
(* sunrise or sunset added.                                                *)
C9_SunriseSunsetWhenMain ==
    pure.op \in {"getWeatherData", "getVisibilityData"} /\ pure.input.kind = "next" =>
        LET d == pure.input.value
            r == pure.output.value
            sys == FieldOr(d, "sys", Undefined)
            Expected(field) ==
                LET stamp == FieldOr(sys, field, Undefined)
                IN  IF stamp.t = "number" /\ stamp.v # 0
                    THEN IsClockTimeOf(r[field], stamp.v, pure.tz)
                    ELSE r[field] = Null
        IN  /\ pure.output.kind = "next"
            /\ IF FieldOr(d, "main", Undefined) = Undefined
               THEN r = d
               ELSE /\ Expected("sunrise")
                    /\ Expected("sunset")
                    /\ r.main = d.main /\ r.sys = d.sys /\ r.list = d.list

(* sys.sunrise = 1700000000 in UTC gives 10:13 PM, and no sys.sunset null *)
C9_SunriseFormatted ==
    /\ pure.op = "getWeatherData"
    /\ pure.tz = 0
    /\ pure.input = Emit(Response(Obj, Sys(Num(1700000000), Undefined), Undefined))
    /\ pure.output.value.sunrise =
          [t |-> "string", hour |-> 10, minute |-> 13, period |-> "PM"]
    /\ pure.output.value.sunset = Null

Carries(error, text) == \E i \in DOMAIN error.message : error.message[i] = text

(* C8: getHighLowTemperature returns {high, low}, high the maximum and low *)
(* the minimum of the list's temperatures, each rounded to the nearest     *)
(* integer, so low <= high; it fails with 'Forecast data is invalid' when  *)
(* the list is absent, and a failure of the fetcher is wrapped into        *)
(* 'Failed to fetch high/low temperatures'.                                *)
C8_HighLowOfForecast ==
    pure.op = "getHighLowTemperature" =>
        LET in == pure.input
            out == pure.output
            list == FieldOr(in.value, "list", Undefined)
            Rounds(tenths, n) == 10 * n - 5 <= tenths /\ tenths <= 10 * n + 5
        IN  IF in.kind = "error"
            THEN /\ out.kind = "error"
                 /\ Carries(out.error, "Failed to fetch high/low temperatures: ")
            ELSE IF list.t # "array"
            THEN /\ out.kind = "error"
                 /\ Carries(out.error, "Forecast data is invalid.")
            ELSE LET temps == list.items
                 IN  /\ out.kind = "next"
                     /\ out.value.high.inf = 0 /\ out.value.low.inf = 0
                     /\ out.value.low.v <= out.value.high.v
                     /\ \E i \in DOMAIN temps :
                           /\ \A j \in DOMAIN temps : temps[j] <= temps[i]
                           /\ Rounds(temps[i], out.value.high.v)
                     /\ \E i \in DOMAIN temps :
                           /\ \A j \in DOMAIN temps : temps[j] >= temps[i]
                           /\ Rounds(temps[i], out.value.low.v)

(* the same of the forecasts that have an entry *)
HighLowOfNonEmptyForecast ==
    pure.op = "getHighLowTemperature" /\ pure.input.kind = "next"
        /\ FieldOr(pure.input.value, "list", Undefined).t = "array"
        /\ FieldOr(pure.input.value, "list", Undefined).items # <<>> =>
      C8_HighLowOfForecast

(* temperatures 3.2, -1.7 and 10.0 give {high: 10, low: -2} *)
HighLowExample ==
    Pipe("getHighLowTemperature",
         Emit(Response(Undefined, Undefined, Array(<<32, -17, 100>>))), 0).out
      = Emit([t |-> "object", high |-> Num(10), low |-> Num(-2)])

-----------------------------------------------------------------------------
(* Claims about the selected-location stream (SpecSubject) *)

(* C6: the stream holds the Location of the latest setSelectedLocation     *)
(* call, null before the first: every current subscriber has it as its     *)
(* last emission, a subscriber that joins gets it at once, and once the    *)
(* service is torn down no subscriber gets a further emission.             *)
C6_LatestSelectedLocation ==
    /\ [](/\ subj.value = subj.last
          /\ subj.sets = 0 => subj.value = Null
          /\ \A s \in Subscribers :
                subs[s].state = "open" =>
                    /\ ~subj.stopped
                    /\ subs[s].got # <<>>
                    /\ subs[s].got[Len(subs[s].got)] = subj.last)
    /\ [][subj.stopped => \A s \in Subscribers : subs'[s].got = subs[s].got]_vars

(* a subscriber got null and the first location and was completed, and a   *)
(* second location was set after the teardown; the other joined after it   *)
C6_SetAfterTeardown ==
    /\ subj.stopped
    /\ subj.sets = 2
    /\ subs["s1"].state = "completed"
    /\ Len(subs["s1"].got) = 2
    /\ subs["s1"].got[1] = Null
    /\ subs["s1"].got[2] # subj.last
    /\ subs["s2"] = [state |-> "completed", got |-> <<>>]

====
